---- MODULE Spec2Model ----
(***************************************************************************)
(* Lamport-clock simulation of rjiang15/262design2: the LogicalClock       *)
(* class, the VirtualMachine tick procedure with its two send paths, the   *)
(* listener's receive loop and the worker's tick loop.                     *)
(*                                                                         *)
(* Specifications:                                                         *)
(*   ClockSpec    one LogicalClock driven by arbitrary tick()/update(x)    *)
(*                calls (src/src/logical_clock.py);                        *)
(*   ConnectSpec  one call of network.connect_to_peer, one iteration of    *)
(*                its retry loop per step;                                 *)
(*   ConfigSpec   one call of VirtualMachine.set_peers_from_config;        *)
(*   ServerSpec   one handle_client thread of network.start_server and     *)
(*                the peer writing to its connection;                      *)
(*   ShutdownSpec one VirtualMachine, vm.shutdown() and the accept loop    *)
(*                of its listener;                                         *)
(*   StartupSpec  one run_vm_worker call, from its arguments to its loop;  *)
(*   ListenerSpec the accept loop of one node and the handle_client        *)
(*                threads of the connections it accepts;                   *)
(*   WiringSpec   NumVMs workers launched at any time, each dialling its   *)
(*                peers with connect_to_peer;                              *)
(*   PacingSpec   the tick loop of run_vm_worker, or of main.run_vm,       *)
(*                against the time of day;                                 *)
(*   Spec         NumVMs VirtualMachine objects, wired by run_vm_worker    *)
(*                (peers are ids, sockets between them), by main.py        *)
(*                (set_peers) or directly with peer objects and no         *)
(*                sockets, as the integration tests do; ticks interleave   *)
(*                with the receive loops at the points where the code      *)
(*                touches msg_queue.                                       *)
(***************************************************************************)
EXTENDS Integers, Sequences, FiniteSets, TLC

\* ---------------------------------------------------------------- bounds
MaxTime == 12          \* ClockSpec stops calling once time exceeds this
MaxRecv == 8           \* received_time arguments of update are 0..MaxRecv
MaxInitial == 3        \* LogicalClock(initial) is 0..MaxInitial in ClockSpec
MaxDeliveries == 2     \* receive_message calls in one run, over all nodes
MaxClock == 3          \* a node starts no tick once its clock exceeds this
MaxRetries == 3        \* connect_to_peer is called with max_retries in 0..MaxRetries
MaxRefusals == 4       \* ... against a peer that refuses 0..MaxRefusals attempts
MaxIds == 3            \* set_peers_from_config gets at most this many peer_ids
MaxLines == 3          \* lines a peer writes to one connection
MaxShutdowns == 2      \* vm.shutdown() is called at most this often
MaxDraw == 11          \* the draws of StartupSpec are 1..MaxDraw
MaxConns == 2          \* connections the accept loop of ListenerSpec accepts
MaxWrites == 2         \* lines written to all connections of ListenerSpec
MaxTickTime == 3       \* a run_tick call takes 0..MaxTickTime units of time
MaxOversleep == 3      \* time.sleep returns 0..MaxOversleep units late

\* ------------------------------------------------------ program constants
NumVMs == 3            \* --num_vms default
max_retries == 5       \* connect_to_peer default

Nodes == 1..NumVMs

\* The send_threshold values of the runs: the least one, the default, and
\* one that leaves a draw outside the three send cases.
Thresholds == {1, 3, 4}

\* The clock values of the messages given to receive_message: that of a
\* sender that has not advanced, and one ahead of every receiver.
MsgClocks == {0, 5}

VARIABLES
    \* ClockSpec: one LogicalClock and the last call made on it
    time,              \* LogicalClock.time
    call,              \* [op, arg, old, ret] of the last call ("init" before any)
    \* Spec: the VirtualMachine objects
    mode,              \* "multi_process" (run_vm.py), "single_process" (main.py) or
                       \* "direct" (peer objects, no sockets)
    send_threshold,    \* VirtualMachine.send_threshold
    clock,             \* [Nodes -> Nat]      vm.clock.time
    msg_queue,         \* [Nodes -> Seq(msg)] vm.msg_queue
    peers,             \* [Nodes -> Seq(peer)] vm.peers
    peer_sockets,      \* [Nodes -> SUBSET Nodes] keys of vm.peer_sockets
    wire,              \* [Nodes -> [Nodes -> Seq(msg)]] bytes written by src, unread by dst
    pc,                \* [Nodes -> position of the node's main thread]
    arrived,           \* [Nodes -> Nat] number of receive_message calls so far (ghost)
    tick,              \* [Nodes -> record of the node's current or last run_tick] (ghost)
    base_port,         \* the --base_port given to every worker
    \* ConnectSpec: one call of network.connect_to_peer
    conn,              \* its arguments, its locals and what it did so far
    \* ConfigSpec: one call of VirtualMachine.set_peers_from_config
    cfg,               \* its arguments and the peers and peer_sockets it left
    \* ServerSpec: one handle_client thread of start_server
    hc,                \* the connection's bytes, the loop and the vm's msg_queue
    \* ShutdownSpec: one VirtualMachine, its accept loop and vm.shutdown()
    teardown,          \* the sockets, the log file, the two threads' positions
    \* StartupSpec: one run_vm_worker call from its arguments to its loop
    worker,            \* the arguments and how far the call has come
    \* ListenerSpec: the accept loop of one node and its handle_client threads
    srv,               \* the connections, their bytes and the vm's msg_queue
    \* WiringSpec: NumVMs run_vm_worker processes from start to their loop
    wiring,            \* [Nodes -> how far the worker's wiring has come]
    \* PacingSpec: one tick loop (run_vm_worker's or run_vm's) against time
    pace               \* the loop's locals, the time and the ticks it ran

clockvars == <<time, call>>
netvars == <<base_port, conn, cfg, hc, teardown, worker, srv, wiring, pace>>
vmvars == <<mode, send_threshold, clock, msg_queue, peers, peer_sockets, wire,
            pc, arrived, tick>>
vars == <<time, call, mode, send_threshold, clock, msg_queue, peers,
          peer_sockets, wire, pc, arrived, tick, base_port, conn, cfg, hc,
          teardown, worker, srv, wiring, pace>>

\* ======================================================== LogicalClock

Max(a, b) == IF a >= b THEN a ELSE b

\* The attributes a LogicalClock object has: the field set by __init__ and
\* the two methods of the class.  Looking up any other name on it, such
\* as the get_time that virtual_machine.py calls, raises AttributeError.
LogicalClockAttrs == {"time", "tick", "update"}

HasAttr(name) == name \in LogicalClockAttrs

\* LogicalClock.tick: self.time += 1; return self.time
tick_stalls(t) == t
clock_tick(t) == t + 1

\* clock.get_time(): the attribute is looked up on the object first; time is
\* the value the call leaves in the clock.
clock_get_time(t) ==
    IF HasAttr("get_time") THEN [exc |-> "none", time |-> t, ret |-> t]
    ELSE [exc |-> "AttributeError", time |-> t]

\* LogicalClock.update: self.time = max(self.time, received_time) + 1
update_takes_received(t, received_time) == received_time + 1
clock_update(t, received_time) == Max(t, received_time) + 1


\* ===================================================== VirtualMachine

\* A connection endpoint that is none of the simulated nodes: any client of
\* the listening socket, or a caller of vm.receive_message.
Client == 0

\* A peer-list entry: run_vm_worker passes ids (int), a direct wiring passes
\* VirtualMachine objects.
PeerId(i) == [kind |-> "int", id |-> i]
PeerObject(i) == [kind |-> "vm", id |-> i]
isinstance_int(p) == p.kind = "int"

NoMsg == [clock |-> 0, seq |-> 0]

\* What a call did to its node: the exception it raised ("none" if it
\* returned), the clock it left, the messages it handed on (to |-> target,
\* via |-> "socket" or "direct") and the event records it logged.
Raise(t, e) == [exc |-> e, clock |-> t, out |-> <<>>, log |-> <<>>]

Event(kind, target, old, now, extra) ==
    [kind |-> kind, target |-> target, old |-> old, now |-> now, extra |-> extra]

\* VirtualMachine.process_message: the first statement reads
\* self.clock.get_time().
process_message(t, message, qlen) ==
    IF ~HasAttr("get_time") THEN Raise(t, "AttributeError")
    ELSE LET old_clock == t
             incoming_clock == message.clock
             new_clock == clock_update(t, incoming_clock)
         IN  [exc |-> "none", clock |-> new_clock, out |-> <<>>,
              log |-> <<Event("Received", 0, old_clock, new_clock, qlen)>>]

\* VirtualMachine.internal_event
internal_event(t) ==
    IF ~HasAttr("get_time") THEN Raise(t, "AttributeError")
    ELSE LET old_clock == t
             new_clock == clock_tick(t)
         IN  [exc |-> "none", clock |-> new_clock, out |-> <<>>,
              log |-> <<Event("Internal", 0, old_clock, new_clock, 0)>>]

\* VirtualMachine.send_message (by peer object).  sendall_ok is the outcome
\* of sock.sendall when there is a socket for the target.
send_message(t, socks, target, sendall_ok) ==
    IF ~HasAttr("get_time") THEN Raise(t, "AttributeError")
    ELSE LET old_clock == t
             message == [clock |-> old_clock]
         IN  IF target \in socks
             THEN IF sendall_ok
                  THEN [exc |-> "none", clock |-> clock_tick(t),
                        out |-> <<[to |-> target, via |-> "socket", msg |-> message]>>,
                        log |-> <<Event("Sent", target, old_clock, clock_tick(t), 0)>>]
                  ELSE [exc |-> "none", clock |-> t, out |-> <<>>,
                        log |-> <<Event("SendError", target, old_clock, t, 0)>>]
             ELSE [exc |-> "none", clock |-> clock_tick(t),
                   out |-> <<[to |-> target, via |-> "direct", msg |-> message]>>,
                   log |-> <<Event("SentDirect", target, old_clock, clock_tick(t), 0)>>]

\* VirtualMachine.send_message_by_id (by peer id)
send_message_by_id(t, socks, peer_id, sendall_ok) ==
    IF ~HasAttr("get_time") THEN Raise(t, "AttributeError")
    ELSE LET old_clock == t
             message == [clock |-> old_clock]
         IN  IF peer_id \in socks
             THEN IF sendall_ok
                  THEN [exc |-> "none", clock |-> clock_tick(t),
                        out |-> <<[to |-> peer_id, via |-> "socket", msg |-> message]>>,
                        log |-> <<Event("Sent", peer_id, old_clock, clock_tick(t), 0)>>]
                  ELSE [exc |-> "none", clock |-> clock_tick(t), out |-> <<>>,
                        log |-> <<Event("SendError", peer_id, old_clock, t, 0),
                                  Event("FailedSendTick", peer_id, old_clock, clock_tick(t), 0)>>]
             ELSE [exc |-> "none", clock |-> clock_tick(t), out |-> <<>>,
                   log |-> <<Event("NoConnection", peer_id, old_clock, t, 0),
                             Event("FailedSendTick", peer_id, old_clock, clock_tick(t), 0)>>]

\* The isinstance(p, int) dispatch that run_tick repeats for every target;
\* calls lists the peers run_tick called a send method for.
send_to(t, socks, p, sendall_ok) ==
    LET eff == IF isinstance_int(p)
               THEN send_message_by_id(t, socks, p.id, sendall_ok[p.id])
               ELSE send_message(t, socks, p.id, sendall_ok[p.id])
    IN  [exc |-> eff.exc, clock |-> eff.clock, out |-> eff.out, log |-> eff.log,
         calls |-> <<p>>]

\* run_tick, event_choice == 3: for p in self.peers, one send each, every
\* send reading the clock the previous one left; an exception ends the loop.
RECURSIVE send_to_all(_, _, _, _)
send_to_all(t, socks, ps, sendall_ok) ==
    IF ps = <<>> THEN [exc |-> "none", clock |-> t, out |-> <<>>, log |-> <<>>,
                       calls |-> <<>>]
    ELSE LET first == send_to(t, socks, Head(ps), sendall_ok)
         IN  IF first.exc # "none" THEN first
             ELSE LET rest == send_to_all(first.clock, socks, Tail(ps), sendall_ok)
                  IN  [exc |-> rest.exc, clock |-> rest.clock,
                       out |-> first.out \o rest.out, log |-> first.log \o rest.log,
                       calls |-> first.calls \o rest.calls]

\* run_tick, the branch taken when msg_queue was empty, after the draw
\* event_choice = random.randint(1, self.send_threshold).
run_tick_event_last_peer(t, ps, socks, event_choice, sendall_ok) ==
    IF event_choice \in {1, 2} /\ ps # <<>>
    THEN send_to(t, socks, ps[Len(ps)], [p \in Nodes |-> TRUE])
    ELSE IF event_choice = 3 /\ ps # <<>>
    THEN send_to_all(t, socks, ps, sendall_ok)
    ELSE internal_event(t)
run_tick_event(t, ps, socks, event_choice, sendall_ok) ==
    IF event_choice = 1 /\ ps # <<>>
    THEN send_to(t, socks, ps[1], sendall_ok)
    ELSE IF event_choice = 2 /\ Len(ps) >= 2
    THEN send_to(t, socks, ps[2], sendall_ok)
    ELSE IF event_choice = 3 /\ ps # <<>>
    THEN send_to_all(t, socks, ps, sendall_ok)
    ELSE internal_event(t)

\* The ids of the peers the draw selects as targets (none: internal event).
targets(ps, event_choice) ==
    IF event_choice = 1 /\ ps # <<>> THEN {ps[1].id}
    ELSE IF event_choice = 2 /\ Len(ps) >= 2 THEN {ps[2].id}
    ELSE IF event_choice = 3 /\ ps # <<>> THEN {ps[i].id : i \in 1..Len(ps)}
    ELSE {}

\* random.randint(1, self.send_threshold): the values the draw can take
event_choices(threshold) == 1..threshold

\* msg = self.msg_queue.pop(0)
pop_last(q) == [msg |-> q[Len(q)], rest |-> SubSeq(q, 1, Len(q) - 1)]
pop0(q) == [msg |-> Head(q), rest |-> Tail(q)]

\* VirtualMachine.receive_message: self.msg_queue.append(message); seq is
\* the number of this append at this node (the identity of the message).
receive_message(q, message, seq) == Append(q, [clock |-> message.clock, seq |-> seq])

\* network.connect_to_peer: the peer refuses the first `refusals` attempts
\* and then answers `final` ("ok", or "error" for any other exception).
RECURSIVE connect_attempts(_, _, _, _)
connect_attempts(attempt, refusals, final, retries) ==
    IF attempt < retries
    THEN IF attempt < refusals
         THEN connect_attempts(attempt + 1, refusals, final, retries)
         ELSE [sock |-> final = "ok", attempts |-> attempt + 1]
    ELSE [sock |-> FALSE, attempts |-> attempt]

connect_to_peer(refusals, final, retries) == connect_attempts(0, refusals, final, retries)

\* VirtualMachine.set_peers_from_config: the peers reached, in peer_ids order
RECURSIVE peers_until_failure(_, _, _)
peers_until_failure(self_id, peer_ids, net) ==
    IF peer_ids = <<>> THEN <<>>
    ELSE LET pid == Head(peer_ids)
         IN  IF pid = self_id THEN peers_until_failure(self_id, Tail(peer_ids), net)
             ELSE IF connect_to_peer(net[pid].refusals, net[pid].final, max_retries).sock
                  THEN <<pid>> \o peers_until_failure(self_id, Tail(peer_ids), net)
                  ELSE <<>>
RECURSIVE peers_from_config(_, _, _)
peers_from_config(self_id, peer_ids, net) ==
    IF peer_ids = <<>> THEN <<>>
    ELSE LET pid == Head(peer_ids)
             rest == peers_from_config(self_id, Tail(peer_ids), net)
         IN  IF pid = self_id THEN rest
             ELSE IF connect_to_peer(net[pid].refusals, net[pid].final, max_retries).sock
                  THEN <<pid>> \o rest
                  ELSE rest

\* run_vm_worker: peer_ids = [i for i in range(1, total_vms + 1) if i != vm_id]
RECURSIVE range_without(_, _, _)
range_without(i, total_vms, vm_id) ==
    IF i > total_vms THEN <<>>
    ELSE IF i # vm_id THEN <<i>> \o range_without(i + 1, total_vms, vm_id)
    ELSE range_without(i + 1, total_vms, vm_id)

\* ============================================================ network

\* network.BASE_PORT, and the --base_port values of the runs: the default
\* and one that is not the default.
BASE_PORT == 5000
BasePorts == {5000, 6000}

\* start_server: port = BASE_PORT + vm.vm_id
server_port(vm_id) == BASE_PORT + vm_id

\* connect_to_peer: port = int(base_port) + int(peer_vm_id)
peer_port(bp, peer_vm_id) == bp + peer_vm_id

\* int(peer_vm_id): an int converts, a VirtualMachine object does not.
int_raises(p) == ~isinstance_int(p)

\* ---- connect_to_peer, one loop iteration at a time.  The record holds the
\* arguments, the locals (port, attempt), the sockets created so far
\* (numbered in order of creation), the connect() calls made, the sockets
\* closed, the time.sleep(retry_delay) calls and the log_event calls.
connect_call(peer_vm_id, bp, retries, refusals, final) ==
    [peer_vm_id |-> peer_vm_id, base_port |-> bp, max_retries |-> retries,
     refusals |-> refusals, final |-> final,
     port |-> peer_port(bp, peer_vm_id), attempt |-> 0,
     sockets |-> 0, dialled |-> <<>>, closed |-> {}, sleeps |-> 0, logs |-> 0,
     pc |-> "while", ret |-> "pending"]

\* What client_socket.connect((host, port)) does on the call numbered
\* attempt_no (from 0): the peer refuses the first `refusals` calls, then
\* accepts ("ok") or fails with another exception ("error").
connect_answer(attempt_no, refusals, final) ==
    IF attempt_no < refusals THEN "refused" ELSE final

\* while attempt < max_retries
while_attempt_inclusive(attempt, retries) == attempt <= retries
while_attempt(attempt, retries) == attempt < retries

\* vm.log_event("Connected ..."); return client_socket
connected(c) == [c EXCEPT !.logs = @ + 1, !.pc = "returned", !.ret = "socket"]

\* except ConnectionRefusedError: attempt += 1; client_socket.close();
\* time.sleep(retry_delay); continue
refused_without_delay(c) == [c EXCEPT !.attempt = @ + 1, !.closed = @ \cup {c.sockets}]
refused(c) == [c EXCEPT !.attempt = @ + 1, !.closed = @ \cup {c.sockets},
                        !.sleeps = @ + 1]

\* except Exception: vm.log_event(...); client_socket.close(); break -- and
\* the return None after the loop
failed_then_retries(c) == [c EXCEPT !.attempt = @ + 1, !.logs = @ + 1,
                                    !.closed = @ \cup {c.sockets}]
failed(c) == [c EXCEPT !.logs = @ + 1, !.closed = @ \cup {c.sockets},
                       !.pc = "returned", !.ret = "None"]

\* The body of the while loop: a new socket, one connect() on it, and the
\* branch the answer selects.
connect_try(c) ==
    LET c1 == [c EXCEPT !.sockets = @ + 1,
                        !.dialled = Append(@, [sock |-> c.sockets + 1, port |-> c.port])]
        answer == connect_answer(c.attempt, c.refusals, c.final)
    IN  IF answer = "ok" THEN connected(c1)
        ELSE IF answer = "refused" THEN refused(c1)
        ELSE failed(c1)

\* ---- VirtualMachine.set_peers(peers), as main.py calls it.  The filter
\* p != self.vm_id compares every entry with an int: an entry that is a
\* VirtualMachine object is never equal to it.
differs_from_vm_id(p, vm_id) == IF isinstance_int(p) THEN p.id # vm_id ELSE TRUE

\* The for loop of set_peers over the filtered list: connect_to_peer(self,
\* pid) converts pid with int() before its first attempt; listening[i]
\* tells whether a server listens on BASE_PORT + i.
RECURSIVE set_peers_connect(_, _, _)
set_peers_connect(ps, socks, listening) ==
    IF ps = <<>> THEN [exc |-> "none", peer_sockets |-> socks]
    ELSE IF int_raises(Head(ps)) THEN [exc |-> "TypeError", peer_sockets |-> socks]
    ELSE set_peers_connect(Tail(ps),
                           IF listening[Head(ps).id] THEN socks \cup {Head(ps).id} ELSE socks,
                           listening)

set_peers(vm_id, new_peers, socks, listening) ==
    LET kept == SelectSeq(new_peers, LAMBDA p : differs_from_vm_id(p, vm_id))
        eff == set_peers_connect(kept, socks, listening)
    IN  [exc |-> eff.exc, peers |-> kept, peer_sockets |-> eff.peer_sockets]

\* ---- start_server.handle_client.  A line the peer wrote is one of: a JSON
\* object, other valid JSON (a number, a string, a list), text that is not
\* JSON, bytes that are not UTF-8.
LineKinds == {"object", "json_other", "not_json", "not_utf8"}

\* data = client_socket.recv(1024).decode("utf-8") on the bytes of `lines`
decode_raises(lines) == \E i \in 1..Len(lines) : lines[i].kind = "not_utf8"

\* json.loads(line)
json_loads_raises(line) == line.kind \notin {"object", "json_other"}

\* while "\n" in buffer: every complete line in turn, json.loads and
\* vm.receive_message, or the log of a JSONDecodeError
RECURSIVE take_lines(_, _, _)
take_lines(q, logs, lines) ==
    IF lines = <<>> THEN [msg_queue |-> q, logs |-> logs]
    ELSE IF json_loads_raises(Head(lines))
         THEN take_lines(q, logs + 1, Tail(lines))
         ELSE take_lines(Append(q, Head(lines)), logs, Tail(lines))

\* The record kept of a node's current (or last) run_tick: what the queue
\* test found, the message popped, the draw, the clock and queue length at
\* the start, how the transport answers a write to each target, what the
\* branch taken did and the peers it called a send method for.
NoTick == [found |-> "none", msg |-> NoMsg, r |-> 0, clock0 |-> 0, qlen0 |-> 0,
           sendall_ok |-> <<>>, exc |-> "none", done |-> FALSE, out |-> <<>>,
           log |-> <<>>, calls |-> <<>>]

Range(s) == {s[i] : i \in 1..Len(s)}

\* ------------------------------------------------- ClockSpec: one clock

NoCall(t) == [op |-> "init", arg |-> 0, old |-> t, ret |-> t]

\* The value of a record variable in the specifications that do not use it
Unused == [pc |-> "unused"]

\* The variables of ListenerSpec, WiringSpec and PacingSpec elsewhere
LoopsIdle == srv = Unused /\ wiring = Unused /\ pace = Unused

\* Values of the node variables while only the clock is exercised.
NodesIdle ==
    /\ mode = "direct"
    /\ send_threshold = 1
    /\ clock = [n \in Nodes |-> 0]
    /\ msg_queue = [n \in Nodes |-> <<>>]
    /\ peers = [n \in Nodes |-> <<>>]
    /\ peer_sockets = [n \in Nodes |-> {}]
    /\ wire = [n \in Nodes |-> [m \in Nodes |-> <<>>]]
    /\ pc = [n \in Nodes |-> "finished"]
    /\ arrived = [n \in Nodes |-> 0]
    /\ tick = [n \in Nodes |-> NoTick]

\* LogicalClock(initial)
ClockInit ==
    /\ time \in 0..MaxInitial
    /\ call = NoCall(time)
    /\ NodesIdle
    /\ LoopsIdle
    /\ base_port = BASE_PORT
    /\ conn = Unused
    /\ cfg = Unused
    /\ hc = Unused
    /\ teardown = Unused
    /\ worker = Unused

\* clock.tick()
Tick ==
    /\ time <= MaxTime
    /\ time' = clock_tick(time)
    /\ call' = [op |-> "tick", arg |-> 0, old |-> time, ret |-> time']
    /\ UNCHANGED <<vmvars, netvars>>

\* clock.update(received_time)
Update(received_time) ==
    /\ time <= MaxTime
    /\ time' = clock_update(time, received_time)
    /\ call' = [op |-> "update", arg |-> received_time, old |-> time, ret |-> time']
    /\ UNCHANGED <<vmvars, netvars>>

\* clock.get_time(), as virtual_machine.py and the tests call it
GetTime ==
    /\ time <= MaxTime
    /\ LET got == clock_get_time(time)
       IN  /\ time' = got.time
           /\ call' = IF got.exc = "none"
                      THEN [op |-> "get_time", arg |-> 0, old |-> time, exc |-> "none",
                            ret |-> got.ret]
                      ELSE [op |-> "get_time", arg |-> 0, old |-> time, exc |-> got.exc]
    /\ UNCHANGED <<vmvars, netvars>>

ClockNext ==
    \/ Tick
    \/ GetTime
    \/ \E x \in 0..MaxRecv : Update(x)

ClockSpec == ClockInit /\ [][ClockNext]_vars

\* ------------------------------------- ConnectSpec: one connect_to_peer

ClockIdle == time = 0 /\ call = NoCall(0)

\* connect_to_peer(vm, peer_vm_id, base_port=bp, max_retries=retries)
\* against a peer that refuses the first `refusals` attempts.
ConnectInit ==
    /\ ClockIdle
    /\ NodesIdle
    /\ LoopsIdle
    /\ base_port = BASE_PORT
    /\ cfg = Unused
    /\ hc = Unused
    /\ teardown = Unused
    /\ worker = Unused
    /\ \E p \in Nodes, bp \in BasePorts, retries \in 0..MaxRetries,
          refusals \in 0..MaxRefusals, final \in {"ok", "error"} :
          conn = connect_call(p, bp, retries, refusals, final)

\* One iteration of the while loop
connect_to_peer_attempt ==
    /\ conn.pc = "while"
    /\ while_attempt(conn.attempt, conn.max_retries)
    /\ conn' = connect_try(conn)
    /\ UNCHANGED <<clockvars, vmvars, base_port, cfg, hc, teardown, worker, srv, wiring, pace>>

\* The loop test fails: return None
connect_to_peer_exhausted ==
    /\ conn.pc = "while"
    /\ ~while_attempt(conn.attempt, conn.max_retries)
    /\ conn' = [conn EXCEPT !.pc = "returned", !.ret = "None"]
    /\ UNCHANGED <<clockvars, vmvars, base_port, cfg, hc, teardown, worker, srv, wiring, pace>>

ConnectNext ==
    \/ connect_to_peer_attempt
    \/ connect_to_peer_exhausted

\* The calling thread runs on: connect() against a refusing peer and
\* time.sleep(retry_delay) both return.
ConnectSpec == ConnectInit /\ [][ConnectNext]_vars /\ WF_vars(ConnectNext)

\* --------------------------- ConfigSpec: one set_peers_from_config call

\* The peer_ids lists: any ids of the deployment, the node's own among them
IdLists == UNION {[1..k -> Nodes] : k \in 0..MaxIds}

\* A peer answers at once or refuses every attempt; an attempt that is not
\* refused connects or fails with another error.
Answers == [refusals : {0, max_retries}, final : {"ok", "error"}]

\* A VirtualMachine as __init__ leaves it, and the arguments of the call
ConfigInit ==
    /\ ClockIdle
    /\ NodesIdle
    /\ LoopsIdle
    /\ base_port = BASE_PORT
    /\ conn = Unused
    /\ hc = Unused
    /\ teardown = Unused
    /\ worker = Unused
    /\ \E n \in Nodes, ids \in IdLists, net \in [Nodes -> Answers] :
          cfg = [vm_id |-> n, peer_ids |-> ids, net |-> net,
                 peers |-> <<>>, peer_sockets |-> {}, pc |-> "created"]

\* vm.set_peers_from_config(peer_ids)
SetPeersFromConfig ==
    /\ cfg.pc = "created"
    /\ LET reached == peers_from_config(cfg.vm_id, cfg.peer_ids, cfg.net)
       IN  cfg' = [cfg EXCEPT !.peers = [i \in 1..Len(reached) |-> PeerId(reached[i])],
                              !.peer_sockets = @ \cup Range(reached),
                              !.pc = "configured"]
    /\ UNCHANGED <<clockvars, vmvars, base_port, conn, hc, teardown, worker, srv, wiring, pace>>

ConfigNext == SetPeersFromConfig

ConfigSpec == ConfigInit /\ [][ConfigNext]_vars

\* ------------------------------ ServerSpec: one handle_client thread

\* The lines the peer has written that recv has not yet returned in full
Unread(h) == SubSeq(h.written, h.read + 1, Len(h.written))

\* The connection has been accepted; nothing was written yet.
ServerInit ==
    /\ ClockIdle
    /\ NodesIdle
    /\ LoopsIdle
    /\ base_port = BASE_PORT
    /\ conn = Unused
    /\ cfg = Unused
    /\ teardown = Unused
    /\ worker = Unused
    /\ hc = [written |-> <<>>, read |-> 0, half |-> FALSE, peer |-> "open",
             msg_queue |-> <<>>, logs |-> 0, pc |-> "recv"]

\* The peer writes one more line to its socket.
peer_write(kind) ==
    /\ hc.peer = "open"
    /\ Len(hc.written) < MaxLines
    /\ hc' = [hc EXCEPT !.written = Append(@, [kind |-> kind, id |-> Len(@) + 1])]
    /\ UNCHANGED <<clockvars, vmvars, base_port, conn, cfg, teardown, worker, srv, wiring, pace>>

\* The peer closes its socket, or the connection is reset.
peer_end(how) ==
    /\ hc.peer = "open"
    /\ hc' = [hc EXCEPT !.peer = how]
    /\ UNCHANGED <<clockvars, vmvars, base_port, conn, cfg, teardown, worker, srv, wiring, pace>>

\* One pass of handle_client's while True with data: recv returns the rest
\* of the line it had half of (if any), k - 1 or k further whole lines, and,
\* when h, the first part of the next one.  decode raises on bytes that are
\* not UTF-8 (except Exception: log, break); otherwise the complete lines
\* are split off the buffer one by one.
handle_client_recv(k, h) ==
    /\ hc.pc = "recv"
    /\ hc.peer # "reset"
    /\ k \in 0..Len(Unread(hc))
    /\ h => k < Len(Unread(hc))
    /\ k >= 1 \/ (h /\ ~hc.half)
    /\ LET lines == SubSeq(Unread(hc), 1, k)
           begun == IF h THEN SubSeq(Unread(hc), 1, k + 1) ELSE lines
           fresh == IF hc.half THEN Tail(begun) ELSE begun
       IN  IF decode_raises(fresh)
           THEN hc' = [hc EXCEPT !.read = @ + k, !.half = FALSE, !.logs = @ + 1,
                                 !.pc = "ended"]
           ELSE LET done == take_lines(hc.msg_queue, hc.logs, lines)
                IN  hc' = [hc EXCEPT !.read = @ + k, !.half = h,
                                     !.msg_queue = done.msg_queue, !.logs = done.logs]
    /\ UNCHANGED <<clockvars, vmvars, base_port, conn, cfg, teardown, worker, srv, wiring, pace>>

\* recv returns b"" after the peer closed (if not data: break), or raises
\* ConnectionResetError (break).
handle_client_end ==
    /\ hc.pc = "recv"
    /\ \/ hc.peer = "reset"
       \/ hc.peer = "closed" /\ Unread(hc) = <<>>
    /\ hc' = [hc EXCEPT !.pc = "ended"]
    /\ UNCHANGED <<clockvars, vmvars, base_port, conn, cfg, teardown, worker, srv, wiring, pace>>

ServerNext ==
    \/ \E kind \in LineKinds : peer_write(kind)
    \/ \E how \in {"closed", "reset"} : peer_end(how)
    \/ \E k \in 0..MaxLines : \E h \in BOOLEAN : handle_client_recv(k, h)
    \/ handle_client_end

ServerSpec == ServerInit /\ [][ServerNext]_vars

\* --------------------- ShutdownSpec: vm.shutdown() and the accept loop

\* The listening socket among the ids of the peer sockets
ServerSocket == 0

\* A set of ids as the ascending sequence the dict of peer_sockets holds
\* them in (set_peers_from_config inserts them in the order of peer_ids).
RECURSIVE in_order(_)
in_order(S) ==
    IF S = {} THEN <<>>
    ELSE LET least == CHOOSE x \in S : \A y \in S : x <= y
         IN  <<least>> \o in_order(S \ {least})

\* sock.close(): one more close() call on s; it raises for the sockets in
\* `fails` and closes the others.
close(td, s) ==
    [td EXCEPT !.closes[s] = @ + 1,
               !.open = IF s \in td.fails THEN @ ELSE @ \ {s}]

\* vm.log_event from a thread: writing to the closed log file raises
\* ValueError.
log_event_raises(td) == td.log_file = "closed"

\* A VirtualMachine after start_network and set_peers_from_config, with
\* sockets to any of its peers; `fails` are the sockets whose close() raises.
ShutdownInit ==
    /\ ClockIdle
    /\ NodesIdle
    /\ LoopsIdle
    /\ base_port = BASE_PORT
    /\ conn = Unused
    /\ cfg = Unused
    /\ hc = Unused
    /\ worker = Unused
    /\ \E n \in Nodes : \E ps \in SUBSET (Nodes \ {n}) :
          \E fails \in SUBSET ({ServerSocket} \cup ps) :
              teardown = [vm_id |-> n, peers |-> ps, fails |-> fails,
                          open |-> {ServerSocket} \cup ps,
                          closes |-> [s \in {ServerSocket} \cup ps |-> 0],
                          log_file |-> "open", pc |-> "running", todo |-> <<>>,
                          calls |-> 0, accept |-> "loop", exited |-> FALSE]

\* vm.shutdown() is called: by run_vm_worker when the duration is over, by
\* main after the threads were joined, by a test, or once more by any of them.
shutdown_call ==
    /\ ~teardown.exited
    /\ teardown.pc \in {"running", "done", "raised"}
    /\ teardown.calls < MaxShutdowns
    /\ teardown' = [teardown EXCEPT !.pc = "server", !.calls = @ + 1]
    /\ UNCHANGED <<clockvars, vmvars, base_port, conn, cfg, hc, worker, srv, wiring, pace>>

\* if self.server_socket: self.server_socket.close() -- not inside a try
shutdown_server ==
    /\ teardown.pc = "server"
    /\ teardown' = [close(teardown, ServerSocket) EXCEPT
                       !.pc = IF ServerSocket \in teardown.fails THEN "raised" ELSE "peers",
                       !.todo = IF ServerSocket \in teardown.fails THEN <<>>
                                ELSE in_order(teardown.peers)]
    /\ UNCHANGED <<clockvars, vmvars, base_port, conn, cfg, hc, worker, srv, wiring, pace>>

\* for sock in self.peer_sockets.values(): try: sock.close() except: pass
shutdown_peer ==
    /\ teardown.pc = "peers"
    /\ teardown.todo # <<>>
    /\ teardown' = [close(teardown, Head(teardown.todo)) EXCEPT !.todo = Tail(@)]
    /\ UNCHANGED <<clockvars, vmvars, base_port, conn, cfg, hc, worker, srv, wiring, pace>>

\* self.log_file.close(), and the return
shutdown_log ==
    /\ teardown.pc = "peers"
    /\ teardown.todo = <<>>
    /\ teardown' = [teardown EXCEPT !.log_file = "closed", !.pc = "done"]
    /\ UNCHANGED <<clockvars, vmvars, base_port, conn, cfg, hc, worker, srv, wiring, pace>>

\* accept_connections: settimeout or accept raises on the closed socket;
\* except Exception: vm.log_event(...); break
accept_exception ==
    /\ ~teardown.exited
    /\ teardown.accept = "loop"
    /\ ServerSocket \notin teardown.open
    /\ teardown' = [teardown EXCEPT
                       !.accept = IF log_event_raises(teardown) THEN "died" ELSE "after_loop"]
    /\ UNCHANGED <<clockvars, vmvars, base_port, conn, cfg, hc, worker, srv, wiring, pace>>

\* accept_connections after the loop: try: server_socket.close()
accept_close ==
    /\ ~teardown.exited
    /\ teardown.accept = "after_loop"
    /\ teardown' = [close(teardown, ServerSocket) EXCEPT !.accept = "closed"]
    /\ UNCHANGED <<clockvars, vmvars, base_port, conn, cfg, hc, worker, srv, wiring, pace>>

\* accept_connections: vm.log_event("Network: Server socket closed.")
accept_log ==
    /\ ~teardown.exited
    /\ teardown.accept = "closed"
    /\ teardown' = [teardown EXCEPT
                       !.accept = IF log_event_raises(teardown) THEN "died" ELSE "ended"]
    /\ UNCHANGED <<clockvars, vmvars, base_port, conn, cfg, hc, worker, srv, wiring, pace>>

\* The process ends after shutdown() returned or raised; the accept thread
\* is a daemon thread and ends with it wherever it is.
process_exit ==
    /\ ~teardown.exited
    /\ teardown.pc \in {"done", "raised"}
    /\ teardown' = [teardown EXCEPT !.exited = TRUE]
    /\ UNCHANGED <<clockvars, vmvars, base_port, conn, cfg, hc, worker, srv, wiring, pace>>

ShutdownNext ==
    \/ shutdown_call
    \/ shutdown_server
    \/ shutdown_peer
    \/ shutdown_log
    \/ accept_exception
    \/ accept_close
    \/ accept_log
    \/ process_exit

ShutdownSpec == ShutdownInit /\ [][ShutdownNext]_vars

\* ------------------------------- StartupSpec: run_vm_worker is started

\* The values given for --tick_rate, --duration and --send_threshold
TickRates == {-1, 0, 1, 2}
Durations == {-1, 0, 1, 60}
SendThresholds == {0, 1, 3, 10, 11}

\* run_vm_worker(vm_id, tick_rate, base_port, duration, send_threshold,
\* total_vms) is called.
StartupInit ==
    /\ ClockIdle
    /\ NodesIdle
    /\ LoopsIdle
    /\ base_port = BASE_PORT
    /\ conn = Unused
    /\ cfg = Unused
    /\ hc = Unused
    /\ teardown = Unused
    /\ \E tr \in TickRates, d \in Durations, st \in SendThresholds :
          worker = [vm_id |-> 1, tick_rate |-> tr, duration |-> d,
                    send_threshold |-> st, pc |-> "called", listening |-> FALSE,
                    peers |-> <<>>, ticks |-> 0, exc |-> "none"]

\* vm = VirtualMachine(vm_id, tick_rate, send_threshold): the arguments are
\* stored as given.
worker_create ==
    /\ worker.pc = "called"
    /\ worker' = [worker EXCEPT !.pc = "created"]
    /\ UNCHANGED <<clockvars, vmvars, base_port, conn, cfg, hc, teardown, srv, wiring, pace>>

\* vm.start_network()
worker_start_network ==
    /\ worker.pc = "created"
    /\ worker' = [worker EXCEPT !.pc = "listening", !.listening = TRUE]
    /\ UNCHANGED <<clockvars, vmvars, base_port, conn, cfg, hc, teardown, srv, wiring, pace>>

\* vm.set_peers_from_config(peer_ids, ...)
worker_set_peers(net) ==
    /\ worker.pc = "listening"
    /\ LET reached == peers_from_config(worker.vm_id,
                                        range_without(1, NumVMs, worker.vm_id), net)
       IN  worker' = [worker EXCEPT
                         !.peers = [i \in 1..Len(reached) |-> PeerId(reached[i])],
                         !.pc = "wired"]
    /\ UNCHANGED <<clockvars, vmvars, base_port, conn, cfg, hc, teardown, srv, wiring, pace>>

\* interval = 1.0 / vm.tick_rate
worker_interval ==
    /\ worker.pc = "wired"
    /\ worker' = IF worker.tick_rate = 0
                 THEN [worker EXCEPT !.pc = "raised", !.exc = "ZeroDivisionError"]
                 ELSE [worker EXCEPT !.pc = "loop"]
    /\ UNCHANGED <<clockvars, vmvars, base_port, conn, cfg, hc, teardown, srv, wiring, pace>>

\* The while loop finds a tick due: vm.run_tick() on the empty queue.
\* random.randint(1, send_threshold) raises ValueError on an empty range.
worker_run_tick(event_choice) ==
    /\ worker.pc = "loop"
    /\ worker.duration > 0
    /\ worker.send_threshold >= 1 => event_choice \in event_choices(worker.send_threshold)
    /\ worker.send_threshold < 1 => event_choice = 1
    /\ LET eff == IF worker.send_threshold < 1 THEN Raise(0, "ValueError")
                  ELSE run_tick_event(0, worker.peers,
                                      {worker.peers[i].id : i \in 1..Len(worker.peers)},
                                      event_choice, [p \in Nodes |-> TRUE])
       IN  worker' = [worker EXCEPT !.ticks = @ + 1,
                                    !.exc = eff.exc,
                                    !.pc = IF eff.exc = "none" THEN "loop" ELSE "raised"]
    /\ UNCHANGED <<clockvars, vmvars, base_port, conn, cfg, hc, teardown, srv, wiring, pace>>

\* time.perf_counter() - start_time < duration is false: vm.shutdown()
worker_expire ==
    /\ worker.pc = "loop"
    /\ worker' = [worker EXCEPT !.pc = "finished"]
    /\ UNCHANGED <<clockvars, vmvars, base_port, conn, cfg, hc, teardown, srv, wiring, pace>>

StartupNext ==
    \/ worker_create
    \/ worker_start_network
    \/ \E net \in [Nodes -> Answers] : worker_set_peers(net)
    \/ worker_interval
    \/ \E r \in 1..MaxDraw : worker_run_tick(r)
    \/ worker_expire

StartupSpec == StartupInit /\ [][StartupNext]_vars

\* ------------- ListenerSpec: the accept loop and its handle_client threads

\* The kinds of line the clients of ListenerSpec write
ClientLineKinds == {"object", "not_utf8"}

\* The lines client c has written that its handle_client has not read yet
Pending(s, c) == SubSeq(s.conns[c].written, s.conns[c].read + 1, Len(s.conns[c].written))

\* The lines written so far on all connections
RECURSIVE Written(_, _)
Written(cs, k) == IF k = 0 THEN 0 ELSE Len(cs[k].written) + Written(cs, k - 1)

\* `break` in handle_client's while True: the thread of connection c leaves
\* its loop (and `with client_socket` closes that one socket).
break_all_loops(cs, c) == [i \in DOMAIN cs |-> [cs[i] EXCEPT !.pc = "ended"]]
break_loop(cs, c) == [cs EXCEPT ![c].pc = "ended"]

\* start_server has returned: the accept thread runs, no client yet.
ListenerInit ==
    /\ ClockIdle
    /\ NodesIdle
    /\ base_port = BASE_PORT
    /\ conn = Unused
    /\ cfg = Unused
    /\ hc = Unused
    /\ teardown = Unused
    /\ worker = Unused
    /\ wiring = Unused
    /\ pace = Unused
    /\ srv = [accept |-> "loop", broken |-> FALSE, conns |-> <<>>,
              msg_queue |-> <<>>, logs |-> 0]

\* accept_connections: accept() returns a client socket; log, and a new
\* daemon thread runs handle_client(client_socket).
accept_connection ==
    /\ srv.accept = "loop"
    /\ ~srv.broken
    /\ Len(srv.conns) < MaxConns
    /\ srv' = [srv EXCEPT
                 !.conns = Append(@, [peer |-> "open", written |-> <<>>, read |-> 0,
                                      taken |-> <<>>, pc |-> "recv"]),
                 !.logs = @ + 1]
    /\ UNCHANGED <<clockvars, vmvars, base_port, conn, cfg, hc, teardown, worker, wiring, pace>>

\* The listening socket fails or is closed: accept() will raise an
\* exception that is not socket.timeout.
server_socket_error ==
    /\ ~srv.broken
    /\ srv' = [srv EXCEPT !.broken = TRUE]
    /\ UNCHANGED <<clockvars, vmvars, base_port, conn, cfg, hc, teardown, worker, wiring, pace>>

\* accept_connections, except Exception: log, break; close; log.  The
\* handle_client threads started before are not touched.
accept_raises ==
    /\ srv.accept = "loop"
    /\ srv.broken
    /\ srv' = [srv EXCEPT !.accept = "ended", !.logs = @ + 2]
    /\ UNCHANGED <<clockvars, vmvars, base_port, conn, cfg, hc, teardown, worker, wiring, pace>>

\* The client of connection c writes one more line; `late` marks a line
\* written when the receive loop of another connection had already ended.
client_write(c, kind) ==
    /\ c \in DOMAIN srv.conns
    /\ srv.conns[c].peer = "open"
    /\ Written(srv.conns, Len(srv.conns)) < MaxWrites
    /\ srv' = [srv EXCEPT !.conns[c].written =
                 Append(@, [kind |-> kind, id |-> Len(@) + 1, conn |-> c,
                            late |-> \E d \in DOMAIN srv.conns :
                                        d # c /\ srv.conns[d].pc = "ended"])]
    /\ UNCHANGED <<clockvars, vmvars, base_port, conn, cfg, hc, teardown, worker, wiring, pace>>

\* The client of connection c closes its socket, or the connection is reset.
client_end(c, how) ==
    /\ c \in DOMAIN srv.conns
    /\ srv.conns[c].peer = "open"
    /\ srv' = [srv EXCEPT !.conns[c].peer = how]
    /\ UNCHANGED <<clockvars, vmvars, base_port, conn, cfg, hc, teardown, worker, wiring, pace>>

\* One pass of the while True of connection c's handle_client with data:
\* recv returns the next k lines; decode raises on bytes that are not UTF-8
\* (except Exception: log, break); otherwise every line is loaded and handed
\* to vm.receive_message.
client_recv(c, k) ==
    /\ c \in DOMAIN srv.conns
    /\ srv.conns[c].pc = "recv"
    /\ srv.conns[c].peer # "reset"
    /\ k \in 1..Len(Pending(srv, c))
    /\ LET lines == SubSeq(Pending(srv, c), 1, k)
       IN  IF decode_raises(lines)
           THEN srv' = [srv EXCEPT !.conns = break_loop([@ EXCEPT ![c].read = @ + k], c),
                                   !.logs = @ + 1]
           ELSE LET done == take_lines(srv.msg_queue, srv.logs, lines)
                IN  srv' = [srv EXCEPT !.conns[c].read = @ + k,
                                       !.conns[c].taken = @ \o lines,
                                       !.msg_queue = done.msg_queue,
                                       !.logs = done.logs]
    /\ UNCHANGED <<clockvars, vmvars, base_port, conn, cfg, hc, teardown, worker, wiring, pace>>

\* recv of connection c returns b"" (if not data: break) or raises
\* ConnectionResetError (break).
client_eof(c) ==
    /\ c \in DOMAIN srv.conns
    /\ srv.conns[c].pc = "recv"
    /\ \/ srv.conns[c].peer = "reset"
       \/ srv.conns[c].peer = "closed" /\ Pending(srv, c) = <<>>
    /\ srv' = [srv EXCEPT !.conns = break_loop(@, c)]
    /\ UNCHANGED <<clockvars, vmvars, base_port, conn, cfg, hc, teardown, worker, wiring, pace>>

ListenerNext ==
    \/ accept_connection
    \/ server_socket_error
    \/ accept_raises
    \/ \E c \in 1..MaxConns : \E kind \in ClientLineKinds : client_write(c, kind)
    \/ \E c \in 1..MaxConns : \E how \in {"closed", "reset"} : client_end(c, how)
    \/ \E c \in 1..MaxConns : \E k \in 1..MaxWrites : client_recv(c, k)
    \/ \E c \in 1..MaxConns : client_eof(c)

ListenerSpec == ListenerInit /\ [][ListenerNext]_vars

\* ------------------ WiringSpec: NumVMs workers start and wire themselves

\* A worker process that was not launched yet
NotStarted == [pc |-> "not_started", todo |-> <<>>, attempt |-> 0, peers |-> <<>>]

\* The listener of worker n accepts connections: from vm.start_network() on
Accepting(n) == wiring[n].pc \in {"connecting", "loop"}

\* connect_to_peer has returned (a socket or None): set_peers_from_config
\* goes on with the next pid, with the locals of a new call; after the last
\* pid it returns and run_vm_worker enters its while loop.
wait_for_peer(w) == [w EXCEPT !.attempt = 0]
next_peer(w) == [w EXCEPT !.todo = Tail(@), !.attempt = 0,
                          !.pc = IF Tail(w.todo) = <<>> THEN "loop" ELSE "connecting"]

\* Nothing runs yet.
WiringInit ==
    /\ ClockIdle
    /\ NodesIdle
    /\ base_port = BASE_PORT
    /\ conn = Unused
    /\ cfg = Unused
    /\ hc = Unused
    /\ teardown = Unused
    /\ worker = Unused
    /\ srv = Unused
    /\ pace = Unused
    /\ wiring = [n \in Nodes |-> NotStarted]

\* python run_vm.py --vm_id n ... is launched: run_vm_worker creates the
\* VirtualMachine, calls vm.start_network(), computes peer_ids = [i for i in
\* range(1, total_vms + 1) if i != vm_id] and calls set_peers_from_config.
wiring_launch(n) ==
    /\ wiring[n].pc = "not_started"
    /\ wiring' = [wiring EXCEPT ![n].pc = "connecting",
                                ![n].todo = range_without(1, NumVMs, n)]
    /\ UNCHANGED <<clockvars, vmvars, base_port, conn, cfg, hc, teardown, worker, srv, pace>>

\* One pass of connect_to_peer's while loop for the current pid: connect()
\* succeeds only against a listener; refused: attempt += 1, sleep, continue;
\* another exception: break, return None.
wiring_connect(n, answer) ==
    /\ wiring[n].pc = "connecting"
    /\ while_attempt(wiring[n].attempt, max_retries)
    /\ answer = "ok" => Accepting(Head(wiring[n].todo))
    /\ wiring' = [wiring EXCEPT ![n] =
          IF answer = "ok"
          THEN next_peer([wiring[n] EXCEPT !.peers = Append(@, Head(wiring[n].todo))])
          ELSE IF answer = "refused"
          THEN [wiring[n] EXCEPT !.attempt = @ + 1]
          ELSE next_peer(wiring[n])]
    /\ UNCHANGED <<clockvars, vmvars, base_port, conn, cfg, hc, teardown, worker, srv, pace>>

\* The loop test of connect_to_peer fails after max_retries refusals:
\* return None, and set_peers_from_config goes on with the next pid.
wiring_give_up(n) ==
    /\ wiring[n].pc = "connecting"
    /\ ~while_attempt(wiring[n].attempt, max_retries)
    /\ wiring' = [wiring EXCEPT ![n] = next_peer(wiring[n])]
    /\ UNCHANGED <<clockvars, vmvars, base_port, conn, cfg, hc, teardown, worker, srv, pace>>

\* What a launched worker does next
wiring_step(n) ==
    \/ \E answer \in {"ok", "refused", "error"} : wiring_connect(n, answer)
    \/ wiring_give_up(n)

WiringNext ==
    \/ \E n \in Nodes : wiring_launch(n)
    \/ \E n \in Nodes : wiring_step(n)

\* A launched process runs on (connect and sleep both return); when or
\* whether a process is launched is up to whoever starts the workers.
WiringSpec ==
    WiringInit /\ [][WiringNext]_vars /\ \A n \in Nodes : WF_vars(wiring_step(n))

\* ------------------------ PacingSpec: one tick loop against the clock

\* 1.0 / vm.tick_rate and the duration, in units of time
Intervals == {1, 2, 3}
PaceDurations == {2, 5}

\* vm.run_tick() as the loop calls it, here on an empty queue of a node
\* without peers: the exception it raises ("none" if it returns)
run_tick_raises == internal_event(0).exc

\* The loop of run_vm_worker (time.perf_counter) or of main.run_vm
\* (stop_event) is about to begin; time is counted from start_time.
PacingInit ==
    /\ ClockIdle
    /\ NodesIdle
    /\ base_port = BASE_PORT
    /\ conn = Unused
    /\ cfg = Unused
    /\ hc = Unused
    /\ teardown = Unused
    /\ worker = Unused
    /\ srv = Unused
    /\ wiring = Unused
    /\ \E loop \in {"run_vm_worker", "run_vm"}, interval \in Intervals,
          duration \in PaceDurations :
          pace = [loop |-> loop, interval |-> interval, duration |-> duration,
                  start_time |-> 0, now |-> 0, next_time |-> interval,
                  stop_event |-> FALSE, ticks |-> <<>>, pc |-> "while"]

\* A vm.run_tick() call that begins at p.now and takes d: the tick is
\* recorded; an exception leaves the loop, which has no try.
run_tick_at(p, d) ==
    [p EXCEPT !.ticks = Append(@, [at |-> p.now]), !.now = @ + d,
              !.pc = IF run_tick_raises # "none" THEN "raised" ELSE "while"]

\* run_vm_worker: while ...: now = perf_counter(); if now >= next_time:
\* vm.run_tick(); next_time += interval
worker_tick(d) ==
    /\ pace.loop = "run_vm_worker"
    /\ pace.pc = "while"
    /\ pace.now - pace.start_time < pace.duration
    /\ pace.now >= pace.next_time
    /\ LET p == run_tick_at(pace, d)
       IN  pace' = IF p.pc = "raised" THEN p ELSE [p EXCEPT !.next_time = @ + p.interval]
    /\ UNCHANGED <<clockvars, vmvars, base_port, conn, cfg, hc, teardown, worker, srv, wiring>>

\* run_vm_worker: else: time.sleep(max(0, next_time - now)); the sleep
\* returns at the time asked for or up to MaxOversleep later.
worker_sleep(late) ==
    /\ pace.loop = "run_vm_worker"
    /\ pace.pc = "while"
    /\ pace.now - pace.start_time < pace.duration
    /\ pace.now < pace.next_time
    /\ pace' = [pace EXCEPT !.now = pace.next_time + late]
    /\ UNCHANGED <<clockvars, vmvars, base_port, conn, cfg, hc, teardown, worker, srv, wiring>>

\* run_vm_worker: the loop test fails; vm.shutdown()
worker_duration_over ==
    /\ pace.loop = "run_vm_worker"
    /\ pace.pc = "while"
    /\ pace.now - pace.start_time >= pace.duration
    /\ pace' = [pace EXCEPT !.pc = "finished"]
    /\ UNCHANGED <<clockvars, vmvars, base_port, conn, cfg, hc, teardown, worker, srv, wiring>>

\* main.run_vm: while not stop_event.is_set(): vm.run_tick();
\* time.sleep(tick_interval), which returns up to MaxOversleep late
run_vm_tick(d, late) ==
    /\ pace.loop = "run_vm"
    /\ pace.pc = "while"
    /\ ~pace.stop_event
    /\ LET p == run_tick_at(pace, d)
       IN  pace' = IF p.pc = "raised" THEN p ELSE [p EXCEPT !.now = @ + p.interval + late]
    /\ UNCHANGED <<clockvars, vmvars, base_port, conn, cfg, hc, teardown, worker, srv, wiring>>

\* main: stop_event.set() after the duration, before or after the thread's
\* first test of it
stop_event_set ==
    /\ pace.loop = "run_vm"
    /\ ~pace.stop_event
    /\ pace.pc \in {"while", "raised"}
    /\ pace' = [pace EXCEPT !.stop_event = TRUE,
                            !.now = IF @ < pace.duration THEN pace.duration ELSE @]
    /\ UNCHANGED <<clockvars, vmvars, base_port, conn, cfg, hc, teardown, worker, srv, wiring>>

\* main.run_vm: the loop test finds stop_event set
run_vm_stopped ==
    /\ pace.loop = "run_vm"
    /\ pace.pc = "while"
    /\ pace.stop_event
    /\ pace' = [pace EXCEPT !.pc = "finished"]
    /\ UNCHANGED <<clockvars, vmvars, base_port, conn, cfg, hc, teardown, worker, srv, wiring>>

PacingNext ==
    \/ \E d \in 0..MaxTickTime : worker_tick(d)
    \/ \E late \in 0..MaxOversleep : worker_sleep(late)
    \/ worker_duration_over
    \/ \E d \in 0..MaxTickTime : \E late \in 0..MaxOversleep : run_vm_tick(d, late)
    \/ stop_event_set
    \/ run_vm_stopped

PacingSpec == PacingInit /\ [][PacingNext]_vars

\* ------------------------------------------------------ Spec: the nodes

\* VirtualMachine.__init__ for every node, then either nothing more
\* (run_vm_worker goes on with start_network) or the direct wiring
\* vm.peers = [the other VirtualMachine objects] with the tick driven by
\* the caller.
Init ==
    /\ time = 0
    /\ call = NoCall(0)
    /\ conn = Unused
    /\ cfg = Unused
    /\ hc = Unused
    /\ teardown = Unused
    /\ worker = Unused
    /\ LoopsIdle
    /\ mode \in {"multi_process", "single_process", "direct"}
    /\ base_port \in IF mode = "multi_process" THEN BasePorts ELSE {BASE_PORT}
    /\ send_threshold \in Thresholds
    /\ clock = [n \in Nodes |-> 0]
    /\ msg_queue = [n \in Nodes |-> <<>>]
    /\ peer_sockets = [n \in Nodes |-> {}]
    /\ wire = [n \in Nodes |-> [m \in Nodes |-> <<>>]]
    /\ arrived = [n \in Nodes |-> 0]
    /\ tick = [n \in Nodes |-> NoTick]
    /\ IF mode \in {"multi_process", "single_process"}
       THEN /\ peers = [n \in Nodes |-> <<>>]
            /\ pc = [n \in Nodes |-> "created"]
       ELSE /\ peers = [n \in Nodes |->
                         [i \in 1..(NumVMs - 1) |-> PeerObject(range_without(1, NumVMs, n)[i])]]
            /\ pc = [n \in Nodes |-> "idle"]

\* The node's accept loop and receive loops run: from start_server until
\* the process ends.
Listening(n) ==
    /\ mode \in {"multi_process", "single_process"}
    /\ pc[n] \notin {"created", "crashed", "finished"}

\* vm.start_network(): by run_vm_worker in the node's own process, or by
\* main.py's `for vm in vms` for one node after the other.
start_network(n) ==
    /\ mode \in {"multi_process", "single_process"}
    /\ pc[n] = "created"
    /\ mode = "single_process" => \A m \in 1..(n - 1) : pc[m] # "created"
    /\ pc' = [pc EXCEPT ![n] = "listening"]
    /\ UNCHANGED <<netvars, time, call, mode, send_threshold, clock, msg_queue, peers,
                   peer_sockets, wire, arrived, tick>>

\* run_vm_worker: vm.set_peers_from_config(peer_ids, ...); net[p] is how
\* peer p answers the connection attempts.  Only a listening peer accepts.
set_peers_from_config(n, net) ==
    /\ mode = "multi_process"
    /\ pc[n] = "listening"
    /\ \A p \in Nodes \ {n} :
          net[p].final = "ok" =>
              \E q \in Nodes : Listening(q) /\ server_port(q) = peer_port(base_port, p)
    /\ LET reached == peers_from_config(n, range_without(1, NumVMs, n), net)
       IN  /\ peers' = [peers EXCEPT ![n] = [i \in 1..Len(reached) |-> PeerId(reached[i])]]
           /\ peer_sockets' = [peer_sockets EXCEPT ![n] = @ \cup Range(reached)]
    /\ pc' = [pc EXCEPT ![n] = "idle"]
    /\ UNCHANGED <<netvars, time, call, mode, send_threshold, clock, msg_queue, wire,
                   arrived, tick>>

\* main.py: `for vm in vms: vm.set_peers(vms)` for node n, after every
\* listener was started.  An exception leaves main (the call is outside its
\* try) and ends the process with all its threads; after the last node
\* main starts the run_vm threads.
main_set_peers(n) ==
    /\ mode = "single_process"
    /\ \A m \in Nodes : pc[m] # "created"
    /\ pc[n] = "listening"
    /\ \A m \in 1..(n - 1) : pc[m] = "wired"
    /\ LET vms == [i \in 1..NumVMs |-> PeerObject(i)]
           eff == set_peers(n, vms, peer_sockets[n], [m \in Nodes |-> Listening(m)])
       IN  /\ peers' = [peers EXCEPT ![n] = eff.peers]
           /\ peer_sockets' = [peer_sockets EXCEPT ![n] = eff.peer_sockets]
           /\ pc' = IF eff.exc # "none" THEN [m \in Nodes |-> "crashed"]
                    ELSE IF n = NumVMs THEN [m \in Nodes |-> "idle"]
                    ELSE [pc EXCEPT ![n] = "wired"]
    /\ UNCHANGED <<netvars, time, call, mode, send_threshold, clock, msg_queue, wire,
                   arrived, tick>>

RECURSIVE Sum(_, _)
Sum(f, k) == IF k = 0 THEN 0 ELSE f[k] + Sum(f, k - 1)

\* vm.receive_message(message) is called with a well-formed message
\* {"clock": c}: by start_server.handle_client of node n for the next line a
\* peer src wrote to its socket, or, for a directly wired node, by any
\* thread of the caller (src = Client), concurrently with the tick.
receive(n, src, c) ==
    /\ Sum(arrived, NumVMs) < MaxDeliveries
    /\ IF src = Client
       THEN /\ mode = "direct"
            /\ pc[n] # "crashed"
            /\ UNCHANGED wire
       ELSE /\ Listening(n)
            /\ src # n
            /\ wire[src][n] # <<>>
            /\ Head(wire[src][n]).clock = c
            /\ wire' = [wire EXCEPT ![src][n] = Tail(@)]
    /\ msg_queue' = [msg_queue EXCEPT ![n] = receive_message(@, [clock |-> c], arrived[n] + 1)]
    /\ arrived' = [arrived EXCEPT ![n] = @ + 1]
    /\ UNCHANGED <<netvars, time, call, mode, send_threshold, clock, peers, peer_sockets,
                   pc, tick>>

\* run_tick, `if self.msg_queue:` -- the tick begins and tests the queue.
run_tick_test(n) ==
    /\ pc[n] = "idle"
    /\ clock[n] <= MaxClock
    /\ tick' = [tick EXCEPT ![n] =
                  [NoTick EXCEPT !.found = IF msg_queue[n] # <<>> THEN "backlog" ELSE "empty",
                                 !.clock0 = clock[n],
                                 !.qlen0 = Len(msg_queue[n])]]
    /\ pc' = [pc EXCEPT ![n] = IF msg_queue[n] # <<>> THEN "pop" ELSE "choose"]
    /\ UNCHANGED <<netvars, time, call, mode, send_threshold, clock, msg_queue, peers,
                   peer_sockets, wire, arrived>>

\* run_tick, `msg = self.msg_queue.pop(0)`
run_tick_pop(n) ==
    /\ pc[n] = "pop"
    /\ msg_queue' = [msg_queue EXCEPT ![n] = pop0(@).rest]
    /\ tick' = [tick EXCEPT ![n].msg = pop0(msg_queue[n]).msg]
    /\ pc' = [pc EXCEPT ![n] = "process"]
    /\ UNCHANGED <<netvars, time, call, mode, send_threshold, clock, peers, peer_sockets,
                   wire, arrived>>

\* The messages a call handed on reach the peer's socket (to be read by its
\* handle_client) or, sent directly, the peer's msg_queue.
RECURSIVE hand_over(_, _, _)
hand_over(src, st, out) ==
    IF out = <<>> THEN st
    ELSE LET o == Head(out)
             st1 == IF o.via = "socket"
                    THEN [st EXCEPT !.wire[src][o.to] = Append(@, o.msg)]
                    ELSE [st EXCEPT !.msg_queue[o.to] =
                                       receive_message(@, o.msg, st.arrived[o.to] + 1),
                                    !.arrived[o.to] = @ + 1]
         IN  hand_over(src, st1, Tail(out))

\* The end of a run_tick call: its effect on the node and, when the call
\* raised, the end of the loop that made it (run_vm_worker's while loop has
\* no try around vm.run_tick()).
finish_tick(n, eff, r, sendall_ok) ==
    LET st == hand_over(n, [wire |-> wire, msg_queue |-> msg_queue, arrived |-> arrived],
                        eff.out)
    IN  /\ clock' = [clock EXCEPT ![n] = eff.clock]
        /\ wire' = st.wire
        /\ msg_queue' = st.msg_queue
        /\ arrived' = st.arrived
        /\ tick' = [tick EXCEPT ![n].exc = eff.exc, ![n].done = TRUE, ![n].r = r,
                                ![n].sendall_ok = sendall_ok,
                                ![n].out = eff.out, ![n].log = eff.log,
                                ![n].calls = IF "calls" \in DOMAIN eff THEN eff.calls
                                             ELSE <<>>]
        /\ pc' = [pc EXCEPT ![n] = IF eff.exc = "none" THEN "idle" ELSE "crashed"]
        /\ UNCHANGED <<netvars, time, call, mode, send_threshold, peers, peer_sockets>>

\* run_tick, `self.process_message(msg)`
run_tick_process(n) ==
    /\ pc[n] = "process"
    /\ finish_tick(n, process_message(clock[n], tick[n].msg, Len(msg_queue[n])), 0, <<>>)

\* run_tick, the else branch: the draw and the event it selects
run_tick_choose(n, event_choice, sendall_ok) ==
    /\ pc[n] = "choose"
    /\ event_choice \in event_choices(send_threshold)
    /\ DOMAIN sendall_ok = targets(peers[n], event_choice)
    /\ finish_tick(n, run_tick_event(clock[n], peers[n], peer_sockets[n],
                                     event_choice, sendall_ok),
                   event_choice, sendall_ok)

\* run_vm_worker: the duration has expired; vm.shutdown()
duration_expired(n) ==
    /\ mode = "multi_process"
    /\ pc[n] = "idle"
    /\ pc' = [pc EXCEPT ![n] = "finished"]
    /\ UNCHANGED <<netvars, time, call, mode, send_threshold, clock, msg_queue, peers,
                   peer_sockets, wire, arrived, tick>>

Next ==
    \/ \E n \in Nodes : start_network(n)
    \/ \E n \in Nodes : \E net \in [Nodes \ {n} -> Answers] : set_peers_from_config(n, net)
    \/ \E n \in Nodes : main_set_peers(n)
    \/ \E n \in Nodes : \E src \in Nodes \cup {Client} : \E c \in MsgClocks :
          receive(n, src, c)
    \/ \E n \in Nodes : run_tick_test(n)
    \/ \E n \in Nodes : run_tick_pop(n)
    \/ \E n \in Nodes : run_tick_process(n)
    \/ \E n \in Nodes : \E r \in event_choices(send_threshold) :
          \E ok \in [targets(peers[n], r) -> BOOLEAN] : run_tick_choose(n, r, ok)
    \/ \E n \in Nodes : duration_expired(n)

Spec == Init /\ [][Next]_vars

\* ============================================================== claims

\* A finished tick that found a message waiting / found the queue empty
BacklogTick(n) == tick[n].done /\ tick[n].found = "backlog"
EmptyTick(n) == tick[n].done /\ tick[n].found = "empty"
\* A finished empty-queue tick whose draw selected at least one target
SendTick(n) == EmptyTick(n) /\ targets(peers[n], tick[n].r) # {}

\* C1: on one LogicalClock every tick() and every update(x) call leaves the
\* value strictly greater than it was before the call.
C1_StrictlyIncreasing == call.op \in {"tick", "update"} => time > call.old

\* C1 witness: update(x) was called with x below the current value and the
\* clock has advanced all the same.
C1_Witness == call.op = "update" /\ call.arg < call.old /\ time > call.old

\* C2: update(x) on a clock at t stores and returns t + 1 when x <= t and
\* x + 1 when x > t.
C2_UpdateIsMaxPlusOne ==
    call.op = "update" =>
        /\ call.ret = time
        /\ call.arg < call.old => time = call.old + 1
        /\ call.arg = call.old => time = call.old + 1
        /\ call.arg > call.old => time = call.arg + 1

\* C2 witness: an update with a received value above the current one.
C2_Witness == call.op = "update" /\ call.arg > call.old /\ call.old > 0

\* C3: once a node has processed a message that carries the sender's clock
\* value c, the node's clock is greater than c.
C3_CausalConsistency ==
    \A n \in Nodes : BacklogTick(n) => clock[n] > tick[n].msg.clock

C5_BacklogFirst ==
    \A n \in Nodes :
        BacklogTick(n) =>
            /\ tick[n].exc = "none"
            /\ tick[n].msg.seq = arrived[n] - Len(msg_queue[n])
            /\ clock[n] = Max(tick[n].clock0, tick[n].msg.clock) + 1
            /\ tick[n].out = <<>>
            /\ Len(tick[n].log) = 1 /\ tick[n].log[1].kind = "Received"

\* C6: a tick that sends has ticked the clock first, and every message it
\* handed to the transport carries the clock value after that tick, the
\* value of the Sent record.
C6_TickBeforeSend ==
    \A n \in Nodes :
        SendTick(n) =>
            /\ clock[n] > tick[n].clock0
            /\ \A i \in 1..Len(tick[n].out) :
                  \E j \in 1..Len(tick[n].log) :
                      /\ tick[n].log[j].kind \in {"Sent", "SentDirect"}
                      /\ tick[n].log[j].target = tick[n].out[i].to
                      /\ tick[n].out[i].msg.clock = tick[n].log[j].now

\* C7: a tick of A (clock a) that sends to its first peer B hands B exactly
\* one message and leaves A at a + 1; when B processes a message carrying a
\* its clock becomes max(b, a) + 1.
C7_SendThenProcess ==
    \A n \in Nodes :
        /\ (EmptyTick(n) /\ tick[n].r = 1 /\ peers[n] # <<>>) =>
              /\ clock[n] = tick[n].clock0 + 1
              /\ Len(tick[n].out) = 1
              /\ tick[n].out[1].to = peers[n][1].id
              /\ tick[n].out[1].msg.clock = tick[n].clock0
        /\ BacklogTick(n) =>
              clock[n] = Max(tick[n].clock0, tick[n].msg.clock) + 1

\* C8: on a tick that found the queue empty every draw in 1..10 is possible
\* whatever send_threshold is, and a draw above send_threshold is an
\* internal event: clock + 1 and nothing sent.
C8_DrawOneToTen ==
    \A n \in Nodes :
        /\ pc[n] = "choose" =>
              \A r \in 1..10 :
                  \E ok \in [targets(peers[n], r) -> BOOLEAN] :
                      ENABLED run_tick_choose(n, r, ok)
        /\ (EmptyTick(n) /\ tick[n].r > send_threshold) =>
              /\ clock[n] = tick[n].clock0 + 1
              /\ tick[n].out = <<>>

\* C9: an empty-queue tick that draws 2 with fewer than two peers, or 1 or
\* 3 with no peer, completes as an internal event: no failure, clock + 1,
\* nothing sent.
C9_FallbackInternal ==
    \A n \in Nodes :
        (/\ EmptyTick(n)
         /\ \/ tick[n].r = 2 /\ Len(peers[n]) < 2
            \/ tick[n].r \in {1, 3} /\ peers[n] = <<>>) =>
            /\ tick[n].exc = "none"
            /\ clock[n] = tick[n].clock0 + 1
            /\ tick[n].out = <<>>

\* C10: a send tick with a target whose write fails or for which there is
\* no connection leaves the clock advanced by one per send, and hands
\* nothing to the failing targets.
C10_FailedSendStillTicks ==
    \A n \in Nodes :
        (/\ SendTick(n)
         /\ \E p \in targets(peers[n], tick[n].r) :
                p \notin peer_sockets[n] \/ ~tick[n].sendall_ok[p]) =>
            /\ clock[n] = tick[n].clock0 + Cardinality(targets(peers[n], tick[n].r))
            /\ \A i \in 1..Len(tick[n].out) :
                  tick[n].out[i].via = "socket" => tick[n].sendall_ok[tick[n].out[i].to]

\* A connect of node n to one of its configured peers has failed: the node
\* is past set_peers_from_config with fewer peers than it was given.
ConnectFailed(n) ==
    /\ mode = "multi_process"
    /\ pc[n] \notin {"created", "listening"}
    /\ Len(peers[n]) < NumVMs - 1

\* C11: a transport-level error does not end a node's tick loop: a node
\* that has had one (here a failed connect) goes on ticking until its
\* duration expires, its loop is never ended by an exception.
C11_TransportErrorsNotFatal ==
    \A n \in Nodes : ConnectFailed(n) => pc[n] # "crashed"

\* A line that is not a JSON document: text json.loads rejects, or bytes
\* that are not text at all.
Malformed(line) == line.kind \in {"not_json", "not_utf8"}

\* The lines recv has returned in full so far
Received(h) == SubSeq(h.written, 1, h.read)

\* C12: a malformed line is discarded and nothing else happens: it never
\* enters msg_queue, the well-formed lines received before and after it are
\* all enqueued in the order written, and the receive loop of the
\* connection ends only when the peer closed or the connection was reset.
C12_MalformedDiscarded ==
    /\ \A i \in 1..Len(hc.msg_queue) : ~Malformed(hc.msg_queue[i])
    /\ hc.msg_queue = SelectSeq(Received(hc), LAMBDA l : ~Malformed(l))
    /\ hc.pc = "ended" => hc.peer # "open"

\* connect_to_peer has returned
Returned == conn.pc = "returned"

\* The sockets of all attempts are distinct and all dial the same endpoint
FreshSockets ==
    /\ \A i, j \in 1..Len(conn.dialled) :
          i # j => conn.dialled[i].sock # conn.dialled[j].sock
    /\ \A i \in 1..Len(conn.dialled) :
          conn.dialled[i].port = peer_port(conn.base_port, conn.peer_vm_id)

\* C13: connect_to_peer never makes more than max_retries attempts; against
\* a peer that refuses every attempt it makes exactly max_retries of them
\* and returns None; and it always returns.
C13_RefusedGivesUp ==
    /\ [](/\ Len(conn.dialled) <= conn.max_retries
          /\ (Returned /\ conn.refusals >= conn.max_retries) =>
                /\ Len(conn.dialled) = conn.max_retries
                /\ conn.ret = "None")
    /\ <>Returned

\* C13 witness: max_retries = 3, three refused attempts, None returned.
C13_Witness ==
    /\ Returned
    /\ conn.max_retries = 3
    /\ conn.refusals >= 3
    /\ Len(conn.dialled) = 3
    /\ conn.ret = "None"

\* C14: a peer that refuses k < max_retries attempts and accepts the next:
\* the socket is returned after k + 1 attempts and k delays, every attempt
\* on a socket of its own, all to the same endpoint.
C14_RetryThenConnect ==
    (Returned /\ conn.refusals < conn.max_retries /\ conn.final = "ok") =>
        /\ conn.ret = "socket"
        /\ Len(conn.dialled) = conn.refusals + 1
        /\ conn.sleeps = conn.refusals
        /\ FreshSockets

\* C14 witness: two refusals, then the third attempt connects.
C14_Witness ==
    /\ Returned
    /\ conn.refusals = 2
    /\ conn.max_retries = 3
    /\ conn.ret = "socket"
    /\ Len(conn.dialled) = 3

\* C15: an attempt that fails with an error other than connection refused
\* is the last one: the error is logged once, the socket of that attempt
\* is closed and None is returned; failing so at the first attempt, the
\* call makes exactly one attempt whatever max_retries is.
C15_OtherErrorStops ==
    (Returned /\ conn.refusals < conn.max_retries /\ conn.final = "error") =>
        /\ Len(conn.dialled) = conn.refusals + 1
        /\ conn.refusals = 0 => Len(conn.dialled) = 1
        /\ conn.logs = 1
        /\ conn.sockets \in conn.closed
        /\ conn.ret = "None"

\* C15 witness: the first attempt fails with two retries still to go.
C15_Witness ==
    /\ Returned
    /\ conn.final = "error"
    /\ conn.refusals = 0
    /\ conn.max_retries = 3
    /\ Len(conn.dialled) = 1

\* The peers whose listener lets the call in within the retry budget
Reachable(net) == {p \in Nodes : net[p].refusals < max_retries /\ net[p].final = "ok"}

\* C16: after set_peers_from_config(peer_ids) on node n, vm.peers holds the
\* configured ids other than n whose connect succeeded, all of them and in
\* the order configured, whichever of the others failed; n is not among
\* them; and vm.peer_sockets has an entry for exactly the listed peers.
C16_PeersAreTheReached ==
    cfg.pc = "configured" =>
        LET wanted == SelectSeq(cfg.peer_ids,
                                LAMBDA p : p # cfg.vm_id /\ p \in Reachable(cfg.net))
        IN  /\ cfg.peers = [i \in 1..Len(wanted) |-> PeerId(wanted[i])]
            /\ \A i \in 1..Len(cfg.peers) : cfg.peers[i].id # cfg.vm_id
            /\ cfg.peer_sockets = {cfg.peers[i].id : i \in 1..Len(cfg.peers)}

\* C16 witness: node 2 configured with <<1, 2, 3>>; the connect to 1 fails
\* and 3 is reached all the same.
C16_Witness ==
    /\ cfg.pc = "configured"
    /\ cfg.vm_id = 2
    /\ cfg.peer_ids = <<1, 2, 3>>
    /\ 1 \notin Reachable(cfg.net)
    /\ cfg.peers = <<PeerId(3)>>
    /\ cfg.peer_sockets = {3}

\* main.py has called set_peers(vms) on node n (the list it assigns to
\* vm.peers is never empty)
SetPeersCalled(n) == mode = "single_process" /\ peers[n] # <<>>

\* C17: once main.py has called set_peers(vms) on a node, with every
\* listener started, the node's peer list holds each other node exactly
\* once and not the node itself, and peer_sockets has one connection per
\* other node, under that node's id.
C17_FullMesh ==
    \A n \in Nodes :
        SetPeersCalled(n) =>
            /\ \A m \in Nodes \ {n} :
                  Cardinality({i \in 1..Len(peers[n]) : peers[n][i].id = m}) = 1
            /\ \A i \in 1..Len(peers[n]) : peers[n][i].id # n
            /\ peer_sockets[n] = Nodes \ {n}

\* C18: a node that listens does so on the port its peers dial to reach it,
\* base_port + id, whatever base_port the workers were started with.
C18_ListenWhereDialled ==
    mode = "multi_process" =>
        \A i \in Nodes :
            pc[i] # "created" => server_port(i) = peer_port(base_port, i)

\* C19: the messages appended to a node's queue are never lost and never
\* taken twice: the queue always holds exactly the latest arrivals, each
\* once and in order, the earlier ones having been dequeued by ticks; and
\* no message is left queued behind a tick loop that has stopped ticking.
C19_ExactlyOnce ==
    \A n \in Nodes :
        /\ \A i \in 1..Len(msg_queue[n]) :
              msg_queue[n][i].seq = arrived[n] - Len(msg_queue[n]) + i
        /\ pc[n] = "crashed" => msg_queue[n] = <<>>

C25_GetTimeReads ==
    call.op = "get_time" =>
        /\ call.exc = "none"
        /\ call.ret = call.old
        /\ time = call.old

\* C24: a node started by run_vm_worker keeps executing ticks until its
\* duration has elapsed, whatever peers it reached and whatever sends fail:
\* every run_tick call it makes returns, and its loop is left only when the
\* duration has expired, never by an exception.
C24_RunsToDuration ==
    mode = "multi_process" =>
        \A n \in Nodes :
            /\ tick[n].done => tick[n].exc = "none"
            /\ pc[n] # "crashed"

\* The tick() half of C26 on one LogicalClock: the stored value grows by
\* exactly 1 and the new stored value is returned.
TickAddsOne == call.op = "tick" => (time = call.old + 1 /\ call.ret = time)

\* A finished empty-queue tick whose draw selected no target: run_tick
\* called self.internal_event().
InternalTick(n) == EmptyTick(n) /\ targets(peers[n], tick[n].r) = {}

\* C26: an internal event of a node is exactly one tick(): it completes,
\* the clock goes from t to t + 1, one Internal record is logged, and it
\* sends nothing and calls no send method (queue, peers and connections are
\* left as they were).
C26_InternalEventIsOneTick ==
    \A n \in Nodes :
        InternalTick(n) =>
            /\ tick[n].exc = "none"
            /\ clock[n] = clock_tick(tick[n].clock0)
            /\ Len(tick[n].log) = 1
            /\ tick[n].out = <<>>
            /\ tick[n].calls = <<>>

\* C27: an empty-queue tick that draws 3 with k >= 1 peers, every write of
\* which the transport accepts, hands exactly one message to each of the k
\* peers, advances the clock by exactly 1 for the whole tick, and all k
\* messages carry the same sender clock.
C27_BroadcastOneTick ==
    \A n \in Nodes :
        (/\ EmptyTick(n)
         /\ tick[n].r = 3
         /\ peers[n] # <<>>
         /\ \A p \in targets(peers[n], 3) : tick[n].sendall_ok[p]) =>
            /\ tick[n].exc = "none"
            /\ Len(tick[n].out) = Len(peers[n])
            /\ \A i \in 1..Len(peers[n]) :
                  Cardinality({j \in 1..Len(tick[n].out) :
                                  tick[n].out[j].to = peers[n][i].id}) = 1
            /\ clock[n] = tick[n].clock0 + 1
            /\ \A i, j \in 1..Len(tick[n].out) :
                  tick[n].out[i].msg.clock = tick[n].out[j].msg.clock

Transitions(n) ==
    IF BacklogTick(n) \/ targets(peers[n], tick[n].r) = {} THEN 1
    ELSE Cardinality(targets(peers[n], tick[n].r))

\* C29: every tick logs exactly one event record per transition it makes
\* (one for a receive or an internal event, one per target for sends), each
\* record belongs to one change of the clock and carries the value after
\* it, the last one the value the tick leaves in the clock.
C29_OneRecordPerTransition ==
    \A n \in Nodes :
        tick[n].done =>
            /\ Len(tick[n].log) = Transitions(n)
            /\ \A i \in 1..Len(tick[n].log) : tick[n].log[i].now > tick[n].log[i].old
            /\ tick[n].log[Len(tick[n].log)].now = clock[n]

\* C30: the queue length in the Received record of a tick that processed a
\* message is the length the queue had right after the dequeue (its length
\* when the tick began, minus one), whatever is appended to the queue
\* while the tick runs.
C30_QueueLengthAfterDequeue ==
    \A n \in Nodes :
        BacklogTick(n) =>
            /\ Len(tick[n].log) = 1
            /\ tick[n].log[1].kind = "Received"
            /\ tick[n].log[1].extra = tick[n].qlen0 - 1

\* The sockets of the node being shut down
Sockets == {ServerSocket} \cup teardown.peers

\* C21: in a run that ends in one shutdown() call, with no close() failing,
\* the listening socket and every peer socket is closed exactly once: no
\* socket ever gets a second close() call, from shutdown or from the accept
\* loop, and when shutdown() has returned each has had its one.
C21_ClosedExactlyOnce ==
    (teardown.fails = {} /\ teardown.calls <= 1) =>
        /\ \A s \in Sockets : teardown.closes[s] <= 1
        /\ teardown.pc = "done" => \A s \in Sockets : teardown.closes[s] = 1

\* C22: teardown is complete and raises nothing: shutdown() never raises,
\* whichever close() calls fail, and when it has returned (the first time
\* or the second) the event log is closed and so is every socket whose
\* close() did not fail.
C22_TeardownComplete ==
    /\ teardown.pc # "raised"
    /\ teardown.pc = "done" =>
          /\ teardown.log_file = "closed"
          /\ \A s \in Sockets \ teardown.fails : s \notin teardown.open

\* A configuration the specification calls invalid: tick rate <= 0,
\* duration <= 0, or send threshold outside 1..10.
InvalidConfiguration ==
    \/ worker.tick_rate <= 0
    \/ worker.duration <= 0
    \/ worker.send_threshold \notin 1..10

\* C23: a node given an invalid configuration is rejected at startup: it
\* never starts its listener, never connects to a peer, never enters its
\* tick loop and never executes a tick.
C23_InvalidConfigRejected ==
    InvalidConfiguration =>
        /\ ~worker.listening
        /\ worker.peers = <<>>
        /\ worker.pc \notin {"listening", "wired", "loop", "finished"}
        /\ worker.ticks = 0

\* C31: a message appended to the queue after a tick has found the queue
\* empty is not processed by that tick: the tick pops nothing, completes its
\* send or internal event, and leaves the message queued for a later tick
\* of the node's loop.
C31_ProcessedByLaterTick ==
    \A n \in Nodes :
        (EmptyTick(n) /\ msg_queue[n] # <<>>) =>
            /\ tick[n].msg = NoMsg
            /\ tick[n].exc = "none"
            /\ pc[n] # "crashed"

\* The lines connection c's handle_client has read so far
ReadLines(c) == SubSeq(srv.conns[c].written, 1, srv.conns[c].read)

\* The entries of the node's msg_queue that came in on connection c
QueuedFrom(c) == SelectSeq(srv.msg_queue, LAMBDA l : l.conn = c)

\* C32: when an inbound connection reaches EOF, is reset or raises, only the
\* receive loop of that connection ends.  The accept loop ends only when the
\* listening socket itself fails; a receive loop ends only on the EOF, reset
\* or undecodable data of its own connection; and the queue holds, for each
\* connection and in the order received, every message its loop has taken,
\* whatever happened to the other connections before or after.
C32_OnlyThatLoopEnds ==
    /\ srv.accept = "ended" => srv.broken
    /\ \A c \in DOMAIN srv.conns :
          /\ srv.conns[c].pc = "ended" =>
                \/ srv.conns[c].peer # "open"
                \/ decode_raises(ReadLines(c))
          /\ QueuedFrom(c) =
                SelectSeq(srv.conns[c].taken, LAMBDA l : ~json_loads_raises(l))

\* C32 witness: the receive loop of one connection has ended after it had
\* enqueued a message; that message is still queued, and behind it is a
\* message another connection wrote and delivered after that loop's end,
\* while the accept loop is still running.
C32_Witness ==
    \E c, d \in DOMAIN srv.conns :
        /\ c # d
        /\ srv.conns[c].pc = "ended"
        /\ srv.conns[d].pc = "recv"
        /\ srv.accept = "loop"
        /\ \E i, j \in 1..Len(srv.msg_queue) :
              /\ i < j
              /\ srv.msg_queue[i].conn = c
              /\ srv.msg_queue[j].conn = d
              /\ srv.msg_queue[j].late

\* For every launched worker the wiring is over at some time: it is in its
\* tick loop.
WiringTerminates ==
    \A n \in Nodes : (wiring[n].pc # "not_started") ~> (wiring[n].pc = "loop")

\* connect_to_peer never counts more than max_retries attempts on one peer,
\* and a worker is in its loop exactly when it has dialled every peer.
BoundedAttempts ==
    \A n \in Nodes :
        /\ wiring[n].attempt <= max_retries
        /\ wiring[n].pc = "loop" => wiring[n].todo = <<>>
        /\ wiring[n].pc = "connecting" => wiring[n].todo # <<>>

\* C33: whichever workers are launched, in whatever order and however far
\* apart, every launched worker makes at most max_retries connection
\* attempts per peer and then enters its tick loop: no worker waits for
\* another one forever.
C33_WiringTerminates == []BoundedAttempts /\ WiringTerminates

\* C33 witness: two workers are in their tick loops, one of them with fewer
\* peers than configured, and so is the third, which was launched so late
\* that it reached both of them.
C33_Witness ==
    /\ \A n \in Nodes : wiring[n].pc = "loop"
    /\ \E n \in Nodes : Len(wiring[n].peers) < NumVMs - 1
    /\ \E n \in Nodes : Len(wiring[n].peers) = NumVMs - 1

\* The intended boundary of the loop's n-th tick
Deadline(n) == pace.start_time + n * pace.interval

\* C34: a tick loop runs its n-th tick at the boundary start + n * interval
\* or later, never before it, and after every tick it goes on with the next
\* deadline one interval after the previous deadline, however long the tick
\* took and however late it ran.
C34_DeadlinePacing ==
    /\ \A n \in 1..Len(pace.ticks) : pace.ticks[n].at >= Deadline(n)
    /\ pace.pc # "raised"
    /\ (pace.loop = "run_vm_worker" /\ pace.pc = "while") =>
          pace.next_time = Deadline(Len(pace.ticks) + 1)

\* What a send hands to the target, whatever way it takes
Handed(eff) == [i \in 1..Len(eff.out) |-> [to |-> eff.out[i].to, msg |-> eff.out[i].msg]]

\* C35: the two send paths are equivalent.  For the sender state, target and
\* transport outcome of every single-target send tick, send_message (by
\* peer object) and send_message_by_id (by peer id) both carry out the send
\* and leave the sender's clock at the same value and hand the same
\* messages to the target.
C35_SendPathsAgree ==
    \A n \in Nodes :
        (SendTick(n) /\ tick[n].r \in {1, 2}) =>
            LET p == peers[n][tick[n].r].id
                by_object == send_message(tick[n].clock0, peer_sockets[n], p,
                                          tick[n].sendall_ok[p])
                by_id == send_message_by_id(tick[n].clock0, peer_sockets[n], p,
                                            tick[n].sendall_ok[p])
            IN  /\ by_object.exc = "none"
                /\ by_id.exc = "none"
                /\ by_object.clock = by_id.clock
                /\ Handed(by_object) = Handed(by_id)

\* The clock value in the sender's Sent record of message m: the send
\* methods attach the clock read before their tick() and log the value
\* tick() returned.
SentClock(m) == clock_tick(m.clock)

\* C36: for every message a node has processed there is a Received record,
\* and the clock value in it is strictly greater than the clock value in
\* the sender's Sent record for that message.
C36_ReceivedAfterSent ==
    \A n \in Nodes :
        BacklogTick(n) =>
            \E i \in 1..Len(tick[n].log) :
                /\ tick[n].log[i].kind = "Received"
                /\ tick[n].log[i].now > SentClock(tick[n].msg)

\* C37: every element of a node's inbound queue is a message object, from
\* which a clock value can be read: a line that decodes as JSON but is not
\* an object (a number, a string, a list) is never enqueued.
C37_QueueHoldsObjects ==
    \A i \in 1..Len(hc.msg_queue) : hc.msg_queue[i].kind = "object"

\* C38: a send-to-all tick calls a send method for every peer of the peer
\* list, in list order, whatever the outcome of the earlier sends.
C38_SendToAllReachesAll ==
    \A n \in Nodes :
        (EmptyTick(n) /\ tick[n].r = 3 /\ peers[n] # <<>>) =>
            tick[n].calls = peers[n]

\* C39: once shutdown() has closed the event log, no background loop of the
\* node writes an event record to it: the accept loop never finds the log
\* closed when it calls vm.log_event.
C39_NoWriteAfterClose ==
    teardown.accept # "died"

====
